---- MODULE Spec2Model ----
(***************************************************************************)
(* Model of the aws_ec2_instance_state resource                            *)
(* (internal/service/ec2/ec2_instance_state.go): the four lifecycle        *)
(* handlers Create, Read, Update, Delete and the reconcile function        *)
(* updateInstanceState, run against a small model of the remote instances  *)
(* and of the engine that stores the resource between handler calls.       *)
(***************************************************************************)
EXTENDS Integers, Sequences, FiniteSets, TLC

\* ------------------------------------------------------------------ bounds
NumInstances == 2

Instances == 1..NumInstances

\* ------------------------------------------------------------- vocabulary
\* the state names of an instance: the two stable ones, the two transient ones
\* the readiness wait sits out, and the one of an instance that is gone
StateNames == {"pending", "running", "stopping", "stopped", "terminated"}

\* values the schema allows for the "state" attribute
AllowedStates == {"running", "stopped"}

Nil == "nil"

NoId == 0

\* outcomes of the collaborators (the remote API is not owned by the resource)
WaitOutcomes == {"ready", "timeout", "notfound", "failed"}
CallOutcomes == {"ok", "api_error", "wait_timeout"}
FindOutcomes == {"found", "notfound", "error"}

\* diagnostics returned by a handler; "panic" is a handler that did not return
DiagOk == "ok"
DiagReadInstance == "error reading EC2 Instance"
DiagReadInstanceState == "error reading EC2 Instance State"
DiagTransition == "transition error"
DiagPanic == "panic"

\* one remote call, as the log of an operation records it
Call(api, id, flag) == [api |-> api, id |-> id, flag |-> flag]

VARIABLES
    res,     \* the resource as the engine stores it: id, instance_id, state, force
    tainted, \* the engine marked the stored resource for replacement
    remote,  \* the real power state of every instance
    last,    \* the running or last lifecycle operation: its position (pc), its
             \* resource data d, its inputs, its remote calls, its result
    rin,     \* inputs of a direct application of updateInstanceState
    rout     \* its result: empty before it is applied, then the one result

vars == <<res, tainted, remote, last, rin, rout>>

\* the engine holds no resource
NoResource == [id |-> NoId, instance_id |-> NoId, state |-> Nil, force |-> FALSE]

\* no handler has run. pc is "done" when no handler is running, "reconcile" when
\* a Create or Update is between its readiness wait and its reconcile, "read"
\* when it is between its reconcile and its closing Read. touched: another
\* actor changed the instance since the handler last acted on it or observed it.
NoOp == [op |-> "none", pc |-> "done", d |-> NoResource, diags |-> DiagOk,
         calls |-> <<>>, observed |-> Nil, waitErr |-> FALSE, desired |-> Nil,
         prior |-> Nil, force |-> FALSE, hasChange |-> FALSE, find |-> Nil,
         found |-> Nil, isNew |-> FALSE, target |-> NoId, callOut |-> Nil,
         touched |-> FALSE]

\* ------------------------------------------------------ remote collaborators
\* waitInstanceReady: waits until the instance is running or stopped and returns
\* it; on failure an error, with or without an instance value.
waitInstanceReady(st, outcome) ==
    CASE outcome = "ready" ->
            LET settled == IF st = "pending" THEN "running"
                           ELSE IF st = "stopping" THEN "stopped" ELSE st
            IN [instance |-> settled, err |-> FALSE, remote |-> settled]
      [] outcome = "failed" -> [instance |-> st, err |-> TRUE, remote |-> st]
      [] OTHER -> [instance |-> Nil, err |-> TRUE, remote |-> st]

\* which outcomes the waiter can have for an instance in state st
WaitPossible(st, outcome) ==
    CASE outcome = "ready" -> st \in {"pending", "running", "stopping", "stopped"}
      [] outcome = "failed" -> st = "terminated"
      [] outcome = "notfound" -> st = "terminated"
      [] OTHER -> TRUE

\* startInstance: start call followed by a wait for "running"
startInstance(st, outcome) ==
    CASE outcome = "ok" -> [err |-> FALSE, remote |-> "running"]
      [] outcome = "wait_timeout" -> [err |-> TRUE, remote |-> "pending"]
      [] OTHER -> [err |-> TRUE, remote |-> st]

\* stopInstance: stop call (forced or not) followed by a wait for "stopped"
stopInstance(st, force, outcome) ==
    CASE outcome = "ok" -> [err |-> FALSE, remote |-> "stopped"]
      [] outcome = "wait_timeout" -> [err |-> TRUE, remote |-> "stopping"]
      [] OTHER -> [err |-> TRUE, remote |-> st]

\* findInstanceStateByID: the instance's state name, not-found, or another error
findInstanceStateByID(st, outcome) ==
    CASE outcome = "found" -> [name |-> st, notFound |-> FALSE, err |-> FALSE]
      [] outcome = "notfound" -> [name |-> Nil, notFound |-> TRUE, err |-> TRUE]
      [] OTHER -> [name |-> Nil, notFound |-> FALSE, err |-> TRUE]

FindPossible(st, outcome) ==
    CASE outcome = "found" -> st # "terminated"
      [] OTHER -> TRUE

\* ------------------------------------------------------------ the reconciler
\* updateInstanceState without the early return for equal states
updateInstanceState_NoEqualCheck(id, st, currentState, configuredState, force, stopOut, startOut) ==
    IF configuredState = "stopped"
    THEN LET x == stopInstance(st, force, stopOut)
         IN [calls |-> <<Call("stop", id, force)>>, err |-> x.err, remote |-> x.remote]
    ELSE IF configuredState = "running"
    THEN LET x == startInstance(st, startOut)
         IN [calls |-> <<Call("start", id, FALSE)>>, err |-> x.err, remote |-> x.remote]
    ELSE [calls |-> <<>>, err |-> FALSE, remote |-> st]

\* updateInstanceState that never forces the stop
updateInstanceState_StopUnforced(id, st, currentState, configuredState, force, stopOut, startOut) ==
    IF currentState = configuredState
    THEN [calls |-> <<>>, err |-> FALSE, remote |-> st]
    ELSE IF configuredState = "stopped"
    THEN LET x == stopInstance(st, FALSE, stopOut)
         IN [calls |-> <<Call("stop", id, FALSE)>>, err |-> x.err, remote |-> x.remote]
    ELSE IF configuredState = "running"
    THEN LET x == startInstance(st, startOut)
         IN [calls |-> <<Call("start", id, FALSE)>>, err |-> x.err, remote |-> x.remote]
    ELSE [calls |-> <<>>, err |-> FALSE, remote |-> st]

\* updateInstanceState that stops a pending instance before it starts it
updateInstanceState_StopsPending(id, st, currentState, configuredState, force, stopOut, startOut) ==
    IF currentState = configuredState
    THEN [calls |-> <<>>, err |-> FALSE, remote |-> st]
    ELSE IF configuredState = "stopped"
    THEN LET x == stopInstance(st, force, stopOut)
         IN [calls |-> <<Call("stop", id, force)>>, err |-> x.err, remote |-> x.remote]
    ELSE IF configuredState = "running"
    THEN LET pre == IF currentState = "pending" /\ force
                    THEN <<Call("stop", id, force)>> ELSE <<>>
             x == startInstance(st, startOut)
         IN [calls |-> pre \o <<Call("start", id, FALSE)>>, err |-> x.err,
             remote |-> x.remote]
    ELSE [calls |-> <<>>, err |-> FALSE, remote |-> st]

\* updateInstanceState(ctx, conn, id, currentState, configuredState, force)
\* st is the instance's real state; stopOut / startOut what the calls would do.
updateInstanceState(id, st, currentState, configuredState, force, stopOut, startOut) ==
    IF currentState = configuredState
    THEN [calls |-> <<>>, err |-> FALSE, remote |-> st]
    ELSE LET stopped == IF configuredState = "stopped"
                        THEN stopInstance(st, force, stopOut)
                        ELSE [err |-> FALSE, remote |-> st]
             c1 == IF configuredState = "stopped"
                   THEN <<Call("stop", id, force)>> ELSE <<>>
         IN IF stopped.err
            THEN [calls |-> c1, err |-> TRUE, remote |-> stopped.remote]
            ELSE LET started == IF configuredState = "running"
                                THEN startInstance(stopped.remote, startOut)
                                ELSE [err |-> FALSE, remote |-> stopped.remote]
                     c2 == IF configuredState = "running"
                           THEN c1 \o <<Call("start", id, FALSE)>> ELSE c1
                 IN [calls |-> c2, err |-> started.err, remote |-> started.remote]

\* ------------------------------------------------------------- the handlers
\* Each handler blocks on the remote API up to three times (readiness wait, start
\* or stop, lookup); other actors can change the instance in between, so a
\* handler is modelled by one operator per remote call.

\* resourceInstanceStateRead that treats every not-found as "already gone"
resourceInstanceStateRead_IgnoresIsNew(d, isNew, rem, findOut) ==
    LET f == findInstanceStateByID(rem[d.id], findOut)
        log == <<Call("find", d.id, FALSE)>>
    IN IF f.notFound
       THEN [d |-> [d EXCEPT !.id = NoId], diags |-> DiagOk, calls |-> log,
             found |-> Nil]
       ELSE IF f.err
       THEN [d |-> d, diags |-> DiagReadInstanceState, calls |-> log, found |-> Nil]
       ELSE [d |-> [d EXCEPT !.instance_id = d.id, !.state = f.name],
             diags |-> DiagOk, calls |-> log, found |-> f.name]

\* resourceInstanceStateRead(ctx, d, meta); rem is the state of every instance
resourceInstanceStateRead(d, isNew, rem, findOut) ==
    LET f == findInstanceStateByID(rem[d.id], findOut)
        log == <<Call("find", d.id, FALSE)>>
    IN IF ~isNew /\ f.notFound
       THEN [d |-> [d EXCEPT !.id = NoId], diags |-> DiagOk, calls |-> log,
             found |-> Nil]
       ELSE IF f.err
       THEN [d |-> d, diags |-> DiagReadInstanceState, calls |-> log, found |-> Nil]
       ELSE [d |-> [d EXCEPT !.instance_id = d.id, !.state = f.name],
             diags |-> DiagOk, calls |-> log, found |-> f.name]

\* resourceInstanceStateCreate, lines 66-73: the readiness wait
resourceInstanceStateCreateWait(d, rem, waitOut) ==
    LET instanceId == d.instance_id
        w == waitInstanceReady(rem[instanceId], waitOut)
    IN [err |-> w.err,
        diags |-> IF w.err THEN DiagReadInstance ELSE DiagOk,
        calls |-> <<Call("wait", instanceId, FALSE)>>,
        remote |-> [rem EXCEPT ![instanceId] = w.remote],
        observed |-> w.instance]

\* the reconcile of Create skipped
resourceInstanceStateCreateReconcile_Skips(d, observed, rem, callOut) ==
    [d |-> [d EXCEPT !.id = d.instance_id], err |-> FALSE, diags |-> DiagOk,
     calls |-> <<>>, remote |-> rem]

\* the identity set before the reconcile
resourceInstanceStateCreateReconcile_SetIdFirst(d, observed, rem, callOut) ==
    LET instanceId == d.instance_id
        u == updateInstanceState(instanceId, rem[instanceId], observed, d.state,
                                 d.force, callOut, callOut)
    IN [d |-> [d EXCEPT !.id = d.instance_id],
        err |-> u.err,
        diags |-> IF u.err THEN DiagTransition ELSE DiagOk,
        calls |-> u.calls,
        remote |-> [rem EXCEPT ![instanceId] = u.remote]]

\* resourceInstanceStateCreate, lines 75-81: the reconcile from the state the
\* wait returned, then d.SetId
resourceInstanceStateCreateReconcile(d, observed, rem, callOut) ==
    LET instanceId == d.instance_id
        u == updateInstanceState(instanceId, rem[instanceId], observed, d.state,
                                 d.force, callOut, callOut)
    IN [d |-> IF u.err THEN d ELSE [d EXCEPT !.id = d.instance_id],
        err |-> u.err,
        diags |-> IF u.err THEN DiagTransition ELSE DiagOk,
        calls |-> u.calls,
        remote |-> [rem EXCEPT ![instanceId] = u.remote]]

\* resourceInstanceStateUpdate, lines 113-119: the readiness wait. An error that
\* comes without an instance value makes instance.InstanceId a nil dereference.
resourceInstanceStateUpdateWait(d, rem, waitOut) ==
    LET w == waitInstanceReady(rem[d.id], waitOut)
    IN [err |-> w.err,
        diags |-> IF ~w.err THEN DiagOk
                  ELSE IF w.instance = Nil THEN DiagPanic ELSE DiagReadInstance,
        calls |-> <<Call("wait", d.id, FALSE)>>,
        remote |-> [rem EXCEPT ![d.id] = w.remote],
        observed |-> w.instance]

\* the reconcile of Update from the state the wait returned
resourceInstanceStateUpdateReconcile_FromObserved(d, prior, observed, rem, callOut) ==
    LET hasChange == prior.state # d.state
        u == IF hasChange
             THEN updateInstanceState(d.id, rem[d.id], observed, d.state,
                                      d.force, callOut, callOut)
             ELSE [calls |-> <<>>, err |-> FALSE, remote |-> rem[d.id]]
    IN [d |-> d, err |-> u.err,
        diags |-> IF u.err THEN DiagTransition ELSE DiagOk,
        calls |-> u.calls,
        remote |-> [rem EXCEPT ![d.id] = u.remote]]

\* resourceInstanceStateUpdate, lines 121-128: under d.HasChange, the reconcile
\* from the old to the new value of the state attribute; the instance the wait
\* returned (observed) is not consulted
resourceInstanceStateUpdateReconcile(d, prior, observed, rem, callOut) ==
    LET hasChange == prior.state # d.state
        u == IF hasChange
             THEN updateInstanceState(d.id, rem[d.id], prior.state, d.state,
                                      d.force, callOut, callOut)
             ELSE [calls |-> <<>>, err |-> FALSE, remote |-> rem[d.id]]
    IN [d |-> d, err |-> u.err,
        diags |-> IF u.err THEN DiagTransition ELSE DiagOk,
        calls |-> u.calls,
        remote |-> [rem EXCEPT ![d.id] = u.remote]]

\* resourceInstanceStateDelete that stops the instance it gives up
resourceInstanceStateDelete_Stops(d, rem) ==
    [d |-> d, diags |-> DiagOk, calls |-> <<Call("stop", d.id, d.force)>>,
     remote |-> [rem EXCEPT ![d.id] = "stopped"]]

\* resourceInstanceStateDelete(ctx, d, meta)
resourceInstanceStateDelete(d, rem) ==
    [d |-> d, diags |-> DiagOk, calls |-> <<>>, remote |-> rem]

\* Importer: schema.ImportStatePassthroughContext sets only the identity
ImportStatePassthrough(i) == [NoResource EXCEPT !.id = i]

\* ------------------------------------------------------------------ engine
\* what the engine stores after a handler returned d: a resource without an
\* identity is not stored at all
EngineSave(d) == IF d.id = NoId THEN NoResource ELSE d

\* a Create that returned an error after it set the identity leaves a resource
\* the engine will replace, never update in place
EngineTaint(d, diags) == d.id # NoId /\ diags # DiagOk

\* the start and stop calls among the remote calls of an operation
Transitions(calls) == SelectSeq(calls, LAMBDA c : c.api \in {"start", "stop"})

TypeOK ==
    /\ res.id \in Instances \cup {NoId}
    /\ res.state \in StateNames \cup {Nil}
    /\ res.force \in BOOLEAN
    /\ tainted \in BOOLEAN
    /\ tainted => res.id # NoId
    /\ remote \in [Instances -> StateNames]
    /\ last.pc \in {"done", "reconcile", "read"}
    /\ last.pc # "done" => last.op \in {"Create", "Update"}

Init ==
    /\ res = NoResource
    /\ tainted = FALSE
    /\ remote \in [Instances -> StateNames]
    /\ last = NoOp
    /\ rin = Nil
    /\ rout = {}

\* the engine calls Create for instance i with a desired state and force; the
\* handler runs up to the return of its readiness wait
CreateWait(i, desired, force, waitOut) ==
    /\ last.pc = "done"
    /\ res.id = NoId
    /\ WaitPossible(remote[i], waitOut)
    /\ \E r \in {resourceInstanceStateCreateWait(
                    [id |-> NoId, instance_id |-> i, state |-> desired, force |-> force],
                    remote, waitOut)} :
          /\ remote' = r.remote
          /\ last' = [NoOp EXCEPT !.op = "Create",
                        !.pc = IF r.err THEN "done" ELSE "reconcile",
                        !.d = [id |-> NoId, instance_id |-> i, state |-> desired,
                               force |-> force],
                        !.diags = r.diags, !.calls = r.calls,
                        !.observed = r.observed, !.waitErr = r.err,
                        !.desired = desired, !.force = force, !.isNew = TRUE,
                        !.target = i]
    /\ UNCHANGED <<res, tainted, rin, rout>>

\* Create goes on: reconcile and d.SetId; a failed start or stop ends it
CreateReconcile(callOut) ==
    /\ last.pc = "reconcile"
    /\ last.op = "Create"
    /\ \E r \in {resourceInstanceStateCreateReconcile(last.d, last.observed,
                                                      remote, callOut)} :
          /\ remote' = r.remote
          /\ last' = [last EXCEPT !.pc = IF r.err THEN "done" ELSE "read",
                        !.d = r.d, !.diags = r.diags,
                        !.calls = last.calls \o r.calls,
                        !.callOut = IF r.calls # <<>> THEN callOut ELSE Nil,
                        !.touched = IF Transitions(r.calls) # <<>> THEN FALSE
                                    ELSE last.touched]
          /\ res' = IF r.err THEN EngineSave(r.d) ELSE res
          /\ tainted' = IF r.err THEN EngineTaint(r.d, r.diags) ELSE tainted
    /\ UNCHANGED <<rin, rout>>

\* the engine calls Update with a changed configuration (state, force or both);
\* the handler runs up to the return of its readiness wait. A handler that
\* panicked stored nothing.
UpdateWait(desired, force, waitOut) ==
    /\ last.pc = "done"
    /\ res.id # NoId
    /\ ~tainted
    /\ desired # res.state \/ force # res.force
    /\ WaitPossible(remote[res.id], waitOut)
    /\ \E r \in {resourceInstanceStateUpdateWait(
                    [res EXCEPT !.state = desired, !.force = force],
                    remote, waitOut)} :
          /\ remote' = r.remote
          /\ last' = [NoOp EXCEPT !.op = "Update",
                        !.pc = IF r.err THEN "done" ELSE "reconcile",
                        !.d = [res EXCEPT !.state = desired, !.force = force],
                        !.diags = r.diags, !.calls = r.calls,
                        !.observed = r.observed, !.waitErr = r.err,
                        !.desired = desired, !.prior = res.state,
                        !.force = force, !.hasChange = (res.state # desired),
                        !.target = res.id]
          /\ res' = IF r.err /\ r.diags # DiagPanic
                    THEN [res EXCEPT !.state = desired, !.force = force]
                    ELSE res
    /\ UNCHANGED <<tainted, rin, rout>>

\* Update goes on: the reconcile under HasChange; a failed start or stop ends it
\* and the engine stores the resource with the new configuration
UpdateReconcile(callOut) ==
    /\ last.pc = "reconcile"
    /\ last.op = "Update"
    /\ \E r \in {resourceInstanceStateUpdateReconcile(last.d, res, last.observed,
                                                      remote, callOut)} :
          /\ remote' = r.remote
          /\ last' = [last EXCEPT !.pc = IF r.err THEN "done" ELSE "read",
                        !.d = r.d, !.diags = r.diags,
                        !.calls = last.calls \o r.calls,
                        !.callOut = IF r.calls # <<>> THEN callOut ELSE Nil,
                        !.touched = IF Transitions(r.calls) # <<>> THEN FALSE
                                    ELSE last.touched]
          /\ res' = IF r.err THEN EngineSave(r.d) ELSE res
    /\ UNCHANGED <<tainted, rin, rout>>

\* the closing Read of Create (line 83) and of Update (line 130); the handler
\* returns and the engine stores what it left
HandlerRead(findOut) ==
    /\ last.pc = "read"
    /\ FindPossible(remote[last.d.id], findOut)
    /\ \E r \in {resourceInstanceStateRead(last.d, last.isNew, remote, findOut)} :
          /\ last' = [last EXCEPT !.pc = "done", !.d = r.d, !.diags = r.diags,
                        !.calls = last.calls \o r.calls, !.find = findOut,
                        !.found = r.found]
          /\ res' = EngineSave(r.d)
          /\ tainted' = (last.op = "Create" /\ EngineTaint(r.d, r.diags))
    /\ UNCHANGED <<remote, rin, rout>>

\* the engine refreshes a resource it holds
Read(findOut) ==
    /\ last.pc = "done"
    /\ res.id # NoId
    /\ FindPossible(remote[res.id], findOut)
    /\ \E r \in {resourceInstanceStateRead(res, FALSE, remote, findOut)} :
          /\ res' = EngineSave(r.d)
          /\ tainted' = (tainted /\ r.d.id # NoId)
          /\ last' = [NoOp EXCEPT !.op = "Read", !.d = r.d, !.diags = r.diags,
                        !.calls = r.calls, !.prior = res.state,
                        !.force = res.force, !.find = findOut,
                        !.found = r.found, !.target = res.id]
    /\ UNCHANGED <<remote, rin, rout>>

\* the engine imports instance i while it holds nothing: the passthrough
\* importer sets the identity, then Read runs for a resource that is not new;
\* a failed import, or one that found nothing, stores nothing
Import(i, findOut) ==
    /\ last.pc = "done"
    /\ res.id = NoId
    /\ FindPossible(remote[i], findOut)
    /\ \E r \in {resourceInstanceStateRead(ImportStatePassthrough(i), FALSE,
                                           remote, findOut)} :
          /\ res' = IF r.diags = DiagOk THEN EngineSave(r.d) ELSE NoResource
          /\ last' = [NoOp EXCEPT !.op = "Import", !.d = r.d, !.diags = r.diags,
                        !.calls = r.calls, !.find = findOut,
                        !.found = r.found, !.target = i]
    /\ UNCHANGED <<tainted, remote, rin, rout>>

\* the engine destroys the resource: after a Delete without error it drops it
Delete ==
    /\ last.pc = "done"
    /\ res.id # NoId
    /\ \E r \in {resourceInstanceStateDelete(res, remote)} :
          /\ res' = IF r.diags = DiagOk THEN NoResource ELSE EngineSave(r.d)
          /\ tainted' = (tainted /\ r.diags # DiagOk)
          /\ remote' = r.remote
          /\ last' = [NoOp EXCEPT !.op = "Delete", !.d = r.d, !.diags = r.diags,
                        !.calls = r.calls, !.prior = res.state,
                        !.force = res.force, !.target = res.id]
    /\ UNCHANGED <<rin, rout>>

\* somebody else changes the power state of an instance, also while a handler
\* is between two of its remote calls
EnvChange(i, s) ==
    /\ remote[i] # "terminated"
    /\ s # remote[i]
    /\ remote' = [remote EXCEPT ![i] = s]
    /\ last' = IF last.pc # "done" /\ last.target = i
               THEN [last EXCEPT !.touched = TRUE] ELSE last
    /\ UNCHANGED <<res, tainted, rin, rout>>

Next ==
    \/ \E i \in Instances, desired \in AllowedStates, force \in BOOLEAN,
          waitOut \in WaitOutcomes : CreateWait(i, desired, force, waitOut)
    \/ \E callOut \in CallOutcomes : CreateReconcile(callOut)
    \/ \E desired \in AllowedStates, force \in BOOLEAN, waitOut \in WaitOutcomes :
          UpdateWait(desired, force, waitOut)
    \/ \E callOut \in CallOutcomes : UpdateReconcile(callOut)
    \/ \E findOut \in FindOutcomes : HandlerRead(findOut)
    \/ \E findOut \in FindOutcomes : Read(findOut)
    \/ \E i \in Instances, findOut \in FindOutcomes : Import(i, findOut)
    \/ Delete
    \/ \E i \in Instances, s \in StateNames : EnvChange(i, s)

Spec == Init /\ [][Next]_vars

\* ------------------------------------------- updateInstanceState on its own
\* every state name as current and as configured state, both force values, every
\* outcome of the stop and of the start call
ReconcileInputs ==
    [id : Instances, st : AllowedStates, current : StateNames, desired : StateNames,
     force : BOOLEAN, stopOut : CallOutcomes, startOut : CallOutcomes]

InitReconcile ==
    /\ res = NoResource
    /\ tainted = FALSE
    /\ remote = [i \in Instances |-> "running"]
    /\ last = NoOp
    /\ rin \in ReconcileInputs
    /\ rout = {}

Reconcile ==
    /\ rout = {}
    /\ rout' = {updateInstanceState(rin.id, rin.st, rin.current, rin.desired,
                                    rin.force, rin.stopOut, rin.startOut)}
    /\ UNCHANGED <<res, tainted, remote, last, rin>>

NextReconcile == Reconcile

SpecReconcile == InitReconcile /\ [][NextReconcile]_vars

\* ------------------------------------------------------------------ claims
\* the remote calls of one kind
CallsTo(calls, api) == SelectSeq(calls, LAMBDA c : c.api = api)

\* the single transition from one state name to a desired state
Expected(id, from, to, force) ==
    IF from = to THEN <<>>
    ELSE IF to = "stopped" THEN <<Call("stop", id, force)>>
    ELSE <<Call("start", id, FALSE)>>

\* C1: in every Create and every Update whose readiness wait succeeded, when the
\* state the wait returned equals the desired state no start and no stop call is

\* C1: in every Create and every Update whose readiness wait succeeded, when the
\* state the wait returned equals the desired state no start and no stop call is
\* issued.
C1_CallOnlyWhenObservedDiffers ==
    (last.op \in {"Create", "Update"} /\ ~last.waitErr /\ last.observed = last.desired)
        => Transitions(last.calls) = <<>>

\* no error, for every state name and both force values.
C2_EqualStatesNoOp ==
    \A r \in rout :
        rin.current = rin.desired => (r.calls = <<>> /\ ~r.err)

C2_Witness ==
    /\ rout # {}
    /\ rin.current = "pending" /\ rin.desired = "pending"
    /\ rin.force
    /\ rin.stopOut # "ok"

\* C3: updateInstanceState toward "stopped" from any other state issues exactly one
\* stop call with the caller's force value and no start call, and returns an
\* error exactly when the stop call failed.
C3_StopOnceWithForce ==
    \A r \in rout :
        (rin.desired = "stopped" /\ rin.current # "stopped")
            => /\ r.calls = <<Call("stop", rin.id, rin.force)>>
               /\ r.err = (rin.stopOut # "ok")

C3_Witness ==
    /\ rout # {}
    /\ rin.desired = "stopped" /\ rin.current = "running"
    /\ rin.force
    /\ \E r \in rout : r.calls = <<Call("stop", rin.id, TRUE)>> /\ ~r.err

\* C4: updateInstanceState toward "running" from any other state issues exactly one
\* start call and no stop call; calls and result do not depend on force nor on
\* which other state the current one is.
C4_StartOnceIgnoringForce ==
    \A r \in rout :
        (rin.desired = "running" /\ rin.current # "running")
            => /\ r.calls = <<Call("start", rin.id, FALSE)>>
               /\ r.err = (rin.startOut # "ok")

C4_Witness ==
    /\ rout # {}
    /\ rin.desired = "running" /\ rin.current = "pending"
    /\ rin.force
    /\ \E r \in rout : r.calls = <<Call("start", rin.id, FALSE)>> /\ ~r.err

\* C5: an Update whose state attribute did not change issues no start or stop

\* C5: an Update whose state attribute did not change issues no start or stop
\* call; one whose state attribute changed issues the single transition from the
\* old to the new state, the same that Create issues from the observed state.
C5_UpdateReconcilesOnChange ==
    /\ (last.op = "Update" /\ ~last.waitErr /\ last.pc # "reconcile")
        => Transitions(last.calls) =
              IF last.hasChange
              THEN Expected(last.target, last.prior, last.desired, last.force)
              ELSE <<>>
    /\ (last.op = "Create" /\ ~last.waitErr /\ last.pc # "reconcile")
        => Transitions(last.calls) =
              Expected(last.target, last.observed, last.desired, last.force)

C5_Witness ==
    /\ last.op = "Update"
    /\ last.pc = "done"
    /\ ~last.hasChange
    /\ last.observed # last.desired
    /\ ~last.touched
    /\ last.diags = DiagOk

\* C6 as stated: after a Create or Update toward D returned success the resource
\* is managed and its recorded state is D.
C6_SuccessRecordsDesired ==
    (last.op \in {"Create", "Update"} /\ last.pc = "done" /\ last.diags = DiagOk)
        => (res.id # NoId /\ res.state = last.desired)

\* C6 amended: after a successful Create, and after a successful Update whose
\* closing Read found the instance, the resource is managed and its recorded
\* state is the state that Read looked up; that state is D when the operation
\* was a Create or an Update whose state attribute changed and no other actor
\* changed the instance between the handler's start or stop (its readiness wait
\* when no call was needed) and the lookup.
C6_SuccessRecordsDesiredAmended ==
    (last.op \in {"Create", "Update"} /\ last.pc = "done" /\ last.diags = DiagOk
        /\ (last.op = "Update" => last.find = "found"))
        => /\ last.find = "found"
           /\ res.id = last.target
           /\ res.state = last.found
           /\ ((last.op = "Create" \/ last.hasChange) /\ ~last.touched)
                 => res.state = last.desired

C6_Witness ==
    /\ last.op = "Update"
    /\ last.pc = "done"
    /\ last.diags = DiagOk
    /\ last.prior = "running" /\ last.desired = "stopped"
    /\ last.force
    /\ ~last.touched
    /\ res.state = "stopped"

\* C7: Delete issues no remote call, returns success, leaves every instance's
\* power state as it was, and the resource is no longer held.
C7_DeleteTouchesNothing ==
    [][(last.op # "Delete" /\ last'.op = "Delete")
          => /\ remote' = remote
             /\ last'.calls = <<>>
             /\ last'.diags = DiagOk
             /\ res' = NoResource]_vars

C7_Witness ==
    /\ last.op = "Delete"
    /\ last.calls = <<>>
    /\ remote[last.target] = "running"
    /\ last.prior = "stopped"
    /\ res = NoResource

\* C8: a Read that gets not-found for a resource that is not new clears the
\* identity and returns no error; not-found for a new resource, and any other
\* lookup failure, is a read error and the identity stays.
C8_ReadNotFound ==
    /\ (last.find = "notfound" /\ ~last.isNew)
        => (last.d.id = NoId /\ last.diags = DiagOk /\ res.id = NoId)
    /\ ((last.find = "notfound" /\ last.isNew) \/ last.find = "error")
        => (last.diags = DiagReadInstanceState /\ last.d.id = last.target)

C8_Witness ==
    /\ last.op = "Read"
    /\ last.find = "notfound"
    /\ last.target # NoId
    /\ last.d.id = NoId
    /\ res.id = NoId

\* C9: Create sets the identity and reads only after the wait and the reconcile
\* succeeded: a failed wait is a read error with no start or stop call and no
\* identity; a failed start or stop is that error, with no identity and no Read.
C9_CreateFailures ==
    last.op = "Create" =>
        /\ last.waitErr
            => /\ last.pc = "done"
               /\ last.diags = DiagReadInstance
               /\ Transitions(last.calls) = <<>>
               /\ last.d.id = NoId /\ res.id = NoId
               /\ CallsTo(last.calls, "find") = <<>>
        /\ (Transitions(last.calls) # <<>> /\ last.callOut # "ok")
            => /\ last.pc = "done"
               /\ last.diags = DiagTransition
               /\ last.d.id = NoId /\ res.id = NoId
               /\ CallsTo(last.calls, "find") = <<>>
        /\ (last.d.id # NoId \/ CallsTo(last.calls, "find") # <<>>)
            => /\ ~last.waitErr
               /\ last.diags # DiagTransition
               /\ last.pc # "reconcile"
               /\ last.d.id = last.target
               /\ last.pc = "done" => Len(CallsTo(last.calls, "find")) = 1

C9_Witness ==
    /\ last.op = "Create"
    /\ last.pc = "done"
    /\ last.diags = DiagTransition
    /\ last.callOut = "wait_timeout"
    /\ res.id = NoId

\* C10: an Update whose readiness wait failed returns the read-error diagnostic
\* and issues no start or stop call.
C10_UpdateWaitFailureReported ==
    (last.op = "Update" /\ last.waitErr)
        => (last.diags = DiagReadInstance /\ Transitions(last.calls) = <<>>)

====
